---- MODULE Spec2Model ----
(***************************************************************************)
(* A model of beltmatic-calc (src/src/main.rs): the exhaustive search for  *)
(* the smallest arithmetic expression over 1..max_number that produces     *)
(* each integer.  Vec indices are the 0-based indices of the source; a     *)
(* TLA+ sequence holds element i of a Vec at position i + 1.  A String is  *)
(* the sequence of its characters.  Option<T> is <<>> (None) or <<x>>      *)
(* (Some(x)).                                                              *)
(***************************************************************************)
EXTENDS Integers, Sequences, FiniteSets, TLC

VARIABLES
    pc,                   \* position of main
    args,                 \* the parsed command line (struct Args)
    operation_dictionary, \* Option<OperationDictionary>
    dictionary,           \* HashMap<i32, (usize, Vec<String>)>
    maximum_composed,     \* running maximum of the evaluated values
    size,                 \* loop variable of `for size in 1..(maximum_size + 1)`
    ints,                 \* composed.ints: the operand slots
    ops,                  \* composed.ops: the operator slots
    alternatives,         \* composed.alternatives: the shapes of this size
    op_finished,          \* flag of the operator odometer
    finished,             \* flag of the operand odometer
    alt,                  \* position of `for alternative in &composed.alternatives`
    v,                    \* the Option<i32> of the latest alternative.eval()
    visited,              \* history: the (ops, ints, alternative) evaluated at this size
    output,               \* the lines printed by the report loop
    call                  \* arguments of a direct call of calculate_parenthesisations

vars == <<pc, args, operation_dictionary, dictionary, maximum_composed, size, ints,
          ops, alternatives, op_finished, finished, alt, v, visited, output, call>>

\* ---------------------------------------------------------------- bounds

\* Configurations explored: max_number + max_size <= MaxTotal.
MaxTotal == 5
\* The --operations argument, when given, has at most MaxArgLen characters.
MaxArgLen == 4
\* calculate_parenthesisations is called directly on at most MaxLeaves leaves.
MaxLeaves == 6

\* ---------------------------------------------------------------- Option

None == <<>>
Some(x) == <<x>>

\* ---------------------------------------------------------------- Operation

Operation == {"ADD", "MULT", "DIV", "SUB"}

FmtOperation(o) ==
    CASE o = "ADD" -> <<"+">>
      [] o = "SUB" -> <<"-">>
      [] o = "MULT" -> <<"*">>
      [] o = "DIV" -> <<"/">>

\* ---------------------------------------------------------------- nodes

NumNode(value) == [kind |-> "num", value |-> value]

BinaryNode(l, r, o) == [kind |-> "bin", left |-> l, right |-> r, operation |-> o]

Digit(d) ==
    CASE d = 0 -> "0" [] d = 1 -> "1" [] d = 2 -> "2" [] d = 3 -> "3" [] d = 4 -> "4"
      [] d = 5 -> "5" [] d = 6 -> "6" [] d = 7 -> "7" [] d = 8 -> "8" [] d = 9 -> "9"

RECURSIVE FmtNat(_)
FmtNat(n) == IF n < 10 THEN <<Digit(n)>> ELSE Append(FmtNat(n \div 10), Digit(n % 10))

\* Display of an i32: decimal, with a leading minus sign when negative.
FmtI32(n) == IF n < 0 THEN <<"-">> \o FmtNat(-n) ELSE FmtNat(n)

\* faulty variant of BinaryFmt: the operands are written in the wrong order
BinaryFmt_Swapped(l, o, r) == <<"(">> \o r \o o \o l \o <<")">>

BinaryFmt(l, o, r) == <<"(">> \o l \o o \o r \o <<")">>

\* Display of a node, reading the slots it refers to.
RECURSIVE Fmt(_, _, _)
Fmt(node, is, os) ==
    IF node.kind = "num"
    THEN FmtI32(is[node.value + 1])
    ELSE BinaryFmt(Fmt(node.left, is, os),
                   FmtOperation(os[node.operation + 1]),
                   Fmt(node.right, is, os))

Abs(x) == IF x < 0 THEN -x ELSE x

\* The `/` of i32: the quotient truncated toward zero (r # 0).
I32Div(l, r) ==
    IF (l < 0) = (r < 0) THEN Abs(l) \div Abs(r) ELSE -(Abs(l) \div Abs(r))

\* faulty variant of EvalDiv: the filter on a zero divisor is missing
EvalDiv_NoFilter(l, r) ==
    IF l = None THEN None
    ELSE IF r = None THEN None
    ELSE IF r[1] = 0 THEN Some(0)
    ELSE Some(I32Div(l[1], r[1]))

\* left.eval().and_then(|l| right.eval().filter(|r| *r != 0).map(|r| l / r))
EvalDiv(l, r) ==
    IF l = None THEN None
    ELSE IF r = None THEN None
    ELSE IF r[1] = 0 THEN None
    ELSE Some(I32Div(l[1], r[1]))

\* left.eval().and_then(|l| right.eval().map(|r| l + r)), and so on
EvalAdd(l, r) == IF l = None THEN None ELSE IF r = None THEN None ELSE Some(l[1] + r[1])

EvalSub(l, r) == IF l = None THEN None ELSE IF r = None THEN None ELSE Some(l[1] - r[1])

EvalMult(l, r) == IF l = None THEN None ELSE IF r = None THEN None ELSE Some(l[1] * r[1])

RECURSIVE Eval(_, _, _)
Eval(node, is, os) ==
    IF node.kind = "num"
    THEN Some(is[node.value + 1])
    ELSE LET l == Eval(node.left, is, os)
             r == Eval(node.right, is, os)
             o == os[node.operation + 1]
         IN  CASE o = "ADD" -> EvalAdd(l, r)
               [] o = "SUB" -> EvalSub(l, r)
               [] o = "MULT" -> EvalMult(l, r)
               [] o = "DIV" -> EvalDiv(l, r)

\* ---------------------------------------------------------------- shapes

\* faulty variant of SplitPoints: the last split point is left out
SplitPoints_Short(left, right) == (left + 1)..(right - 2)

\* for i in (left + 1)..right
SplitPoints(left, right) == (left + 1)..(right - 1)

\* faulty variant of SplitOperation: the root of a split takes the first slot of the range
SplitOperation_First(left, i, operations) == operations[left + 1]

\* operations[i - 1].clone()
SplitOperation(left, i, operations) == operations[(i - 1) + 1]

\* faulty variant of Cross: the inner loop takes the first right shape every time
Cross_FirstRight(ls, rs, o) ==
    [k \in 1..(Len(ls) * Len(rs)) |->
        BinaryNode(ls[((k - 1) \div Len(rs)) + 1], rs[1], o)]

\* The two nested loops over left_combinations and right_combinations.
Cross(ls, rs, o) ==
    [k \in 1..(Len(ls) * Len(rs)) |->
        BinaryNode(ls[((k - 1) \div Len(rs)) + 1], rs[((k - 1) % Len(rs)) + 1], o)]

RECURSIVE calculate_parenthesisations(_, _, _, _)
RECURSIVE Splits(_, _, _, _, _)

\* The pushes of the split points i, i + 1, ... in order.
Splits(i, left, right, nodes, operations) ==
    IF i \notin SplitPoints(left, right)
    THEN <<>>
    ELSE Cross(calculate_parenthesisations(left, i, nodes, operations),
               calculate_parenthesisations(i, right, nodes, operations),
               SplitOperation(left, i, operations))
         \o Splits(i + 1, left, right, nodes, operations)

calculate_parenthesisations(left, right, nodes, operations) ==
    IF left + 1 = right
    THEN <<nodes[left + 1]>>
    ELSE IF left + 2 = right
    THEN <<BinaryNode(nodes[left + 1], nodes[(left + 1) + 1], operations[left + 1])>>
    ELSE Splits(left + 1, left, right, nodes, operations)

\* The num_nodes of make_options: leaf i refers to operand slot i.
NumNodes(n) == [i \in 1..n |-> NumNode(i - 1)]

\* The operations of make_options: element i is the reference to operator slot i.
OpRefs(n) == [i \in 1..(n - 1) |-> i - 1]

\* make_options: every operand slot is 0, every operator slot is ADD.
make_options(n) ==
    [ints |-> [i \in 1..n |-> 0],
     ops |-> [i \in 1..(n - 1) |-> "ADD"],
     alternatives |-> calculate_parenthesisations(0, n, NumNodes(n), OpRefs(n))]

\* ---------------------------------------------------------------- OperationDictionary

\* operations_arg.split(","): the pieces between the commas, empty pieces included.
RECURSIVE SplitFrom(_, _, _)
SplitFrom(s, i, cur) ==
    IF i > Len(s) THEN <<cur>>
    ELSE IF s[i] = "," THEN <<cur>> \o SplitFrom(s, i + 1, <<>>)
    ELSE SplitFrom(s, i + 1, Append(cur, s[i]))

Split(s) == SplitFrom(s, 1, <<>>)

\* The default of --operations: "+,-,*,/".
DefaultOperations == <<"+", ",", "-", ",", "*", ",", "/">>

\* The arms of the match in OperationDictionary::new; None is the `_` arm.
TokenOperation(option) ==
    CASE option = <<"+">> -> Some("ADD")
      [] option = <<"-">> -> Some("SUB")
      [] option = <<"*">> -> Some("MULT")
      [] option = <<"/">> -> Some("DIV")
      [] OTHER -> None

\* OperationDictionary::new: operations in the order given, indexes holding for
\* each operation the index of its last push (a later insert overwrites).
OperationDictionaryNew(options) ==
    IF \E i \in 1..Len(options) : TokenOperation(options[i]) = None
    THEN None
    ELSE LET operations == [i \in 1..Len(options) |-> TokenOperation(options[i])[1]]
             last(o) == CHOOSE i \in 1..Len(operations) :
                            /\ operations[i] = o
                            /\ \A j \in (i + 1)..Len(operations) : operations[j] # o
         IN  Some([operations |-> operations,
                   indexes |-> [o \in {operations[i] : i \in 1..Len(operations)} |->
                                   last(o) - 1]])

\* OperationDictionary::operation: None is the panic of an index out of bounds.
DictOperation(od, index) ==
    IF index < Len(od.operations) THEN Some(od.operations[index + 1]) ELSE None

\* OperationDictionary::index: None is the panic of unwrap() on a missing key.
DictIndex(od, operation) ==
    IF operation \in DOMAIN od.indexes THEN Some(od.indexes[operation]) ELSE None

\* OperationDictionary::max_operation
DictMaxOperation(od) == od.operations[(Len(od.operations) - 1) + 1]

\* ---------------------------------------------------------------- odometers

\* The index at which `while i < len && slots[i] == x` stops.
RECURSIVE ScanWhile(_, _, _)
ScanWhile(slots, x, i) ==
    IF i < Len(slots) /\ slots[i + 1] = x THEN ScanWhile(slots, x, i + 1) ELSE i

\* One increment of the operand odometer.
NextInts(is, limit) ==
    LET i == ScanWhile(is, limit, 0)
    IN  [ints |-> [j \in 1..Len(is) |->
                      IF j - 1 < i THEN 1
                      ELSE IF j - 1 = i THEN is[j] + 1
                      ELSE is[j]],
         finished |-> ~(i < Len(is))]

\* One increment of the operator odometer; panicked when a lookup fails.
NextOps(os, od) ==
    LET op == ScanWhile(os, DictMaxOperation(od), 0)
        reset == [j \in 1..Len(os) |-> IF j - 1 < op THEN DictOperation(od, 0)[1] ELSE os[j]]
    IN  IF op < Len(os)
        THEN LET current_op == DictIndex(od, reset[op + 1])
             IN  IF current_op = None \/ DictOperation(od, current_op[1] + 1) = None
                 THEN [ops |-> reset, op_finished |-> FALSE, panicked |-> TRUE]
                 ELSE [ops |-> [reset EXCEPT ![op + 1] =
                                   DictOperation(od, current_op[1] + 1)[1]],
                       op_finished |-> FALSE, panicked |-> FALSE]
        ELSE [ops |-> reset, op_finished |-> TRUE, panicked |-> FALSE]

\* ---------------------------------------------------------------- result table

\* faulty variant of Record: a string of a larger size is appended too
Record_AnySize(dict, val, sz, str) ==
    IF val \notin DOMAIN dict
    THEN [x \in DOMAIN dict \cup {val} |-> IF x = val THEN <<sz, <<str>>>> ELSE dict[x]]
    ELSE [dict EXCEPT ![val] = <<dict[val][1], Append(dict[val][2], str)>>]

\* The update of the table by one defined result.
Record(dict, val, sz, str) ==
    IF val \notin DOMAIN dict
    THEN [x \in DOMAIN dict \cup {val} |-> IF x = val THEN <<sz, <<str>>>> ELSE dict[x]]
    ELSE IF dict[val][1] = sz
    THEN [dict EXCEPT ![val] = <<dict[val][1], Append(dict[val][2], str)>>]
    ELSE dict

\* ---------------------------------------------------------------- main

ArgChars == {"+", "-", "*", "/", ","}

ArgStrings == UNION {[1..n -> ArgChars] : n \in 0..MaxArgLen}

Init ==
    /\ pc = "start"
    /\ \E max_number \in 0..MaxTotal :
       \E max_size \in 0..(MaxTotal - max_number) :
       \E operations \in {None} \cup {Some(s) : s \in ArgStrings} :
          args = [max_number |-> max_number, max_size |-> max_size,
                  operations |-> operations]
    /\ operation_dictionary = None
    /\ dictionary = <<>>
    /\ maximum_composed = 1
    /\ size = 1
    /\ ints = <<>>
    /\ ops = <<>>
    /\ alternatives = <<>>
    /\ op_finished = FALSE
    /\ finished = FALSE
    /\ alt = 0
    /\ v = None
    /\ visited = <<>>
    /\ output = <<>>
    /\ call = None

\* args.operations.unwrap_or(..) split at the commas
Operations == Split(IF args.operations = None THEN DefaultOperations ELSE args.operations[1])

RejectMaxNumber ==
    /\ pc = "start"
    /\ args.max_number <= 0
    /\ pc' = "exit"
    /\ UNCHANGED <<args, operation_dictionary, dictionary, maximum_composed, size, ints,
                   ops, alternatives, op_finished, finished, alt, v, visited, output, call>>

RejectOperations ==
    /\ pc = "start"
    /\ ~(args.max_number <= 0)
    /\ OperationDictionaryNew(Operations) = None
    /\ pc' = "exit"
    /\ UNCHANGED <<args, operation_dictionary, dictionary, maximum_composed, size, ints,
                   ops, alternatives, op_finished, finished, alt, v, visited, output, call>>

Setup ==
    /\ pc = "start"
    /\ ~(args.max_number <= 0)
    /\ OperationDictionaryNew(Operations) # None
    /\ operation_dictionary' = OperationDictionaryNew(Operations)
    /\ dictionary' = <<>>
    /\ maximum_composed' = 1
    /\ size' = 1
    /\ pc' = "size_loop"
    /\ UNCHANGED <<args, ints, ops, alternatives, op_finished, finished, alt, v, visited,
                   output, call>>

MakeOptions ==
    /\ pc = "size_loop"
    /\ size < args.max_size + 1
    /\ LET composed == make_options(size)
       IN  /\ ints' = composed.ints
           /\ ops' = composed.ops
           /\ alternatives' = composed.alternatives
    /\ op_finished' = FALSE
    /\ visited' = <<>>
    /\ pc' = "op_loop"
    /\ UNCHANGED <<args, operation_dictionary, dictionary, maximum_composed, size,
                   finished, alt, v, output, call>>

EndSizes ==
    /\ pc = "size_loop"
    /\ ~(size < args.max_size + 1)
    /\ pc' = "report"
    /\ UNCHANGED <<args, operation_dictionary, dictionary, maximum_composed, size, ints,
                   ops, alternatives, op_finished, finished, alt, v, visited, output, call>>

ResetInts ==
    /\ pc = "op_loop"
    /\ ~op_finished
    /\ ints' = [i \in 1..Len(ints) |-> 1]
    /\ finished' = FALSE
    /\ alt' = 0
    /\ pc' = "eval"
    /\ UNCHANGED <<args, operation_dictionary, dictionary, maximum_composed, size, ops,
                   alternatives, op_finished, v, visited, output, call>>

NextSize ==
    /\ pc = "op_loop"
    /\ op_finished
    /\ size' = size + 1
    /\ pc' = "size_loop"
    /\ UNCHANGED <<args, operation_dictionary, dictionary, maximum_composed, ints, ops,
                   alternatives, op_finished, finished, alt, v, visited, output, call>>

EvalAlternative ==
    /\ pc = "eval"
    /\ alt < Len(alternatives)
    /\ LET alternative == alternatives[alt + 1]
           r == Eval(alternative, ints, ops)
       IN  /\ v' = r
           /\ IF r # None
              THEN /\ maximum_composed' =
                          IF r[1] > maximum_composed THEN r[1] ELSE maximum_composed
                   /\ dictionary' = Record(dictionary, r[1], size,
                                           Fmt(alternative, ints, ops))
              ELSE UNCHANGED <<maximum_composed, dictionary>>
    /\ visited' = Append(visited, <<ops, ints, alt>>)
    /\ alt' = alt + 1
    /\ UNCHANGED <<pc, args, operation_dictionary, size, ints, ops, alternatives,
                   op_finished, finished, output, call>>

IncInts ==
    /\ pc = "eval"
    /\ ~(alt < Len(alternatives))
    /\ LET n == NextInts(ints, args.max_number)
       IN  /\ ints' = n.ints
           /\ finished' = n.finished
           /\ pc' = IF n.finished THEN "inc_ops" ELSE "eval"
    /\ alt' = 0
    /\ UNCHANGED <<args, operation_dictionary, dictionary, maximum_composed, size, ops,
                   alternatives, op_finished, v, visited, output, call>>

IncOps ==
    /\ pc = "inc_ops"
    /\ LET n == NextOps(ops, operation_dictionary[1])
       IN  /\ ops' = n.ops
           /\ op_finished' = n.op_finished
           /\ pc' = IF n.panicked THEN "panic" ELSE "op_loop"
    /\ UNCHANGED <<args, operation_dictionary, dictionary, maximum_composed, size, ints,
                   alternatives, finished, alt, v, visited, output, call>>

\* The report loop: one line per value of 1..maximum_composed, with its entry if any.
Report ==
    /\ pc = "report"
    /\ output' = [x \in 1..maximum_composed |->
                     <<x, IF x \in DOMAIN dictionary THEN Some(dictionary[x]) ELSE None>>]
    /\ pc' = "done"
    /\ UNCHANGED <<args, operation_dictionary, dictionary, maximum_composed, size, ints,
                   ops, alternatives, op_finished, finished, alt, v, visited, call>>

Next ==
    \/ RejectMaxNumber
    \/ RejectOperations
    \/ Setup
    \/ MakeOptions
    \/ EndSizes
    \/ ResetInts
    \/ NextSize
    \/ EvalAlternative
    \/ IncInts
    \/ IncOps
    \/ Report

Spec == Init /\ [][Next]_vars

\* ---------------------------------------------------------------- shapes alone

\* calculate_parenthesisations called directly on the leaves left..right-1 of n.
InitShapes ==
    /\ pc = "shapes"
    /\ \E n \in 1..MaxLeaves : \E right \in 1..n : \E left \in 0..(right - 1) :
          call = Some([left |-> left, right |-> right, n |-> n])
    /\ args = [max_number |-> 1, max_size |-> 0, operations |-> None]
    /\ operation_dictionary = None
    /\ dictionary = <<>>
    /\ maximum_composed = 1
    /\ size = 1
    /\ ints = <<>>
    /\ ops = <<>>
    /\ alternatives = <<>>
    /\ op_finished = FALSE
    /\ finished = FALSE
    /\ alt = 0
    /\ v = None
    /\ visited = <<>>
    /\ output = <<>>

CallShapes ==
    /\ pc = "shapes"
    /\ alternatives' = calculate_parenthesisations(call[1].left, call[1].right,
                                                   NumNodes(call[1].n), OpRefs(call[1].n))
    /\ pc' = "shapes_done"
    /\ UNCHANGED <<args, operation_dictionary, dictionary, maximum_composed, size, ints,
                   ops, op_finished, finished, alt, v, visited, output, call>>

NextShapes == CallShapes

SpecShapes == InitShapes /\ [][NextShapes]_vars

\* ---------------------------------------------------------------- reference semantics
\* What an expression string means, read off the string alone: nothing below
\* uses the model of the evaluator, of the renderer or of the enumeration.

RefDigits == <<"0", "1", "2", "3", "4", "5", "6", "7", "8", "9">>

RefIsDigit(c) == \E d \in 1..10 : RefDigits[d] = c

RefDigitValue(c) == (CHOOSE d \in 1..10 : RefDigits[d] = c) - 1

RECURSIVE RefDigitsEnd(_, _)
RefDigitsEnd(s, i) ==
    IF i <= Len(s) /\ RefIsDigit(s[i]) THEN RefDigitsEnd(s, i + 1) ELSE i

RECURSIVE RefNumber(_, _, _, _)
RefNumber(s, i, j, acc) ==
    IF i >= j THEN acc ELSE RefNumber(s, i + 1, j, 10 * acc + RefDigitValue(s[i]))

RefFail == [ok |-> FALSE, tree |-> <<>>, next |-> 0]

\* expr ::= digits | "(" expr op expr ")"
RECURSIVE RefParseAt(_, _)
RefParseAt(s, i) ==
    IF i > Len(s) THEN RefFail
    ELSE IF s[i] = "("
    THEN LET l == RefParseAt(s, i + 1)
         IN  IF ~l.ok \/ l.next > Len(s) \/ s[l.next] \notin {"+", "-", "*", "/"}
             THEN RefFail
             ELSE LET r == RefParseAt(s, l.next + 1)
                  IN  IF ~r.ok \/ r.next > Len(s) \/ s[r.next] # ")"
                      THEN RefFail
                      ELSE [ok |-> TRUE,
                            tree |-> [kind |-> "bin", l |-> l.tree, o |-> s[l.next],
                                      r |-> r.tree],
                            next |-> r.next + 1]
    ELSE IF RefIsDigit(s[i])
    THEN LET j == RefDigitsEnd(s, i)
         IN  [ok |-> TRUE, tree |-> [kind |-> "num", n |-> RefNumber(s, i, j, 0)],
              next |-> j]
    ELSE RefFail

RefParse(s) ==
    LET p == RefParseAt(s, 1)
    IN  IF p.ok /\ p.next = Len(s) + 1 THEN Some(p.tree) ELSE None

\* The quotient truncated toward zero: a = q * b + r with |r| < |b| and r of a's sign.
RefQuotient(a, b) ==
    CHOOSE q \in (-Abs(a))..Abs(a) :
        LET r == a - q * b
        IN  Abs(r) < Abs(b) /\ (r = 0 \/ (r < 0) = (a < 0))

\* The value of a o b; None when it is a division by zero.
RefApply(o, a, b) ==
    CASE o = "+" -> Some(a + b)
      [] o = "-" -> Some(a - b)
      [] o = "*" -> Some(a * b)
      [] o = "/" -> IF b = 0 THEN None ELSE Some(RefQuotient(a, b))

RECURSIVE RefValue(_)
RefValue(t) ==
    IF t.kind = "num" THEN Some(t.n)
    ELSE LET a == RefValue(t.l)
             b == RefValue(t.r)
         IN  IF a = None \/ b = None THEN None ELSE RefApply(t.o, a[1], b[1])

RECURSIVE RefOperands(_)
RefOperands(t) == IF t.kind = "num" THEN 1 ELSE RefOperands(t.l) + RefOperands(t.r)

\* Some division in t has a right operand that evaluates to 0.
RECURSIVE RefDividesByZero(_)
RefDividesByZero(t) ==
    IF t.kind = "num" THEN FALSE
    ELSE \/ t.o = "/" /\ RefValue(t.r) = Some(0)
         \/ RefDividesByZero(t.l)
         \/ RefDividesByZero(t.r)

RefSymbol(o) ==
    CASE o = "ADD" -> "+" [] o = "SUB" -> "-" [] o = "MULT" -> "*" [] o = "DIV" -> "/"

\* The values of the fully parenthesized expressions with exactly n operands in
\* 1..maxnum and operators in symbols (the value of an expression is decided by
\* the values of its two sides).
RECURSIVE RefValues(_, _, _)
RefValues(n, maxnum, symbols) ==
    IF n = 1 THEN 1..maxnum
    ELSE UNION {UNION {UNION {{x[1] : x \in {RefApply(o, a, b) : o \in symbols} \ {None}} :
                              b \in RefValues(n - k, maxnum, symbols)} :
                       a \in RefValues(k, maxnum, symbols)} :
                k \in 1..(n - 1)}

\* The operators the user configured.
Configured == {operation_dictionary[1].operations[i] :
                  i \in 1..Len(operation_dictionary[1].operations)}

Searching == pc \in {"op_loop", "eval", "inc_ops"}

\* The table is not being written: between two sizes, and when the search is over.
TableAtRest == pc \in {"size_loop", "report", "done", "panic"}

\* All the strings of the table.
Strings == UNION {{dictionary[val][2][i] : i \in 1..Len(dictionary[val][2])} :
                  val \in DOMAIN dictionary}

\* ---------------------------------------------------------------- claims

\* C1: when the search has finished, the table has an entry for v exactly when
\* some expression with at most max_size operands in 1..max_number and operators
\* of the configured list evaluates to v, and its size is the least such operand
\* count.
C1_TableIsComplete ==
    pc = "report" =>
        LET symbols == {RefSymbol(o) : o \in Configured}
            values(n) == RefValues(n, args.max_number, symbols)
            attainable == UNION {values(n) : n \in 1..args.max_size}
        IN  /\ DOMAIN dictionary = attainable
            /\ \A val \in DOMAIN dictionary :
                  /\ val \in values(dictionary[val][1])
                  /\ \A n \in 1..(dictionary[val][1] - 1) : val \notin values(n)

\* C2: when a size is finished, every (operator assignment, operand assignment,
\* shape) of that size has been evaluated exactly once, and the operands restart
\* from all-ones whenever the operator assignment changes.
C2_EveryPairOnce ==
    (pc = "op_loop" /\ op_finished) =>
        LET expected == {<<os, is, a>> :
                            os \in [1..(size - 1) -> Configured],
                            is \in [1..size -> 1..args.max_number],
                            a \in 0..(Len(alternatives) - 1)}
        IN  /\ Len(visited) = Cardinality(expected)
            /\ {visited[i] : i \in 1..Len(visited)} = expected
            /\ \A i \in 1..Len(visited) :
                  (i = 1 \/ visited[i - 1][1] # visited[i][1]) =>
                      \A j \in 1..size : visited[i][2][j] = 1

\* C3: in the table left by a finished size, and so in the final table, every
\* string parses to an expression with exactly the stored number of operands
\* whose value is the key of its entry.
C3_StringsEvaluateToKey ==
    TableAtRest =>
        \A val \in DOMAIN dictionary :
            \A i \in 1..Len(dictionary[val][2]) :
                LET t == RefParse(dictionary[val][2][i])
                IN  /\ t # None
                    /\ RefOperands(t[1]) = dictionary[val][1]
                    /\ RefValue(t[1]) = Some(val)

C3_Witness ==
    /\ pc = "done"
    /\ \E val \in DOMAIN dictionary :
          /\ val < 0
          /\ dictionary[val][1] = 3
          /\ Len(dictionary[val][2]) >= 2

\* C4: during the search every operator slot holds an operator of the
\* configured list.
C4_SlotsAreConfigured ==
    Searching => \A i \in 1..Len(ops) : ops[i] \in Configured

\* One step on the entries that exist: each keeps its size, changes only by one
\* string appended by an evaluation of its value at its size, and does not
\* change while a larger size is processed.
C5_Step ==
    \A val \in DOMAIN dictionary :
        /\ val \in DOMAIN dictionary'
        /\ dictionary'[val][1] = dictionary[val][1]
        /\ dictionary'[val] # dictionary[val] =>
              /\ size = dictionary[val][1]
              /\ v' = Some(val)
              /\ Len(dictionary'[val][2]) = Len(dictionary[val][2]) + 1
              /\ SubSeq(dictionary'[val][2], 1, Len(dictionary[val][2]))
                    = dictionary[val][2]
        /\ size > dictionary[val][1] => dictionary'[val] = dictionary[val]

\* C5: the size of an entry never changes and is at most the size being
\* processed; a string is appended only by an evaluation of the entry's value at
\* the entry's size; while a larger size is processed the entry is unchanged.
C5_EntryUpdates ==
    /\ [](\A val \in DOMAIN dictionary : dictionary[val][1] <= size)
    /\ [][C5_Step]_vars

\* an evaluation of a value whose entry is of a smaller size has just happened
C5_Witness ==
    /\ pc = "eval"
    /\ alt > 0
    /\ v # None
    /\ v[1] \in DOMAIN dictionary
    /\ dictionary[v[1]][1] < size

RECURSIVE Subtrees(_)
Subtrees(node) ==
    IF node.kind = "num" THEN {node}
    ELSE {node} \cup Subtrees(node.left) \cup Subtrees(node.right)

\* On the current slots, a division by a right side that is 0 is undefined and
\* a node with an undefined side is undefined.
C6_Eval ==
    Searching =>
        \A a \in 1..Len(alternatives) :
            \A node \in Subtrees(alternatives[a]) :
                node.kind = "bin" =>
                    /\ (ops[node.operation + 1] = "DIV"
                            /\ Eval(node.right, ints, ops) = Some(0))
                          => Eval(node, ints, ops) = None
                    /\ (Eval(node.left, ints, ops) = None
                            \/ Eval(node.right, ints, ops) = None)
                          => Eval(node, ints, ops) = None

\* No string of the table divides by a sub-expression that is 0.
C6_Table ==
    TableAtRest =>
        \A str \in Strings : RefParse(str) # None /\ ~RefDividesByZero(RefParse(str)[1])

\* An undefined root leaves the table and the maximum alone, and the loop goes on.
C6_Step ==
    (pc = "eval" /\ alt' = alt + 1 /\ v' = None) =>
        /\ dictionary' = dictionary
        /\ maximum_composed' = maximum_composed
        /\ pc' = "eval"

\* C6: a division whose right side evaluates to 0 is undefined, and so is every
\* node above an undefined node; an undefined root changes neither the table
\* nor the maximum and the search goes on; no string of the table left by a
\* finished size, and so of the final table, contains a division by a
\* sub-expression that evaluates to 0.
C6_DivisionByZero == [](C6_Eval /\ C6_Table) /\ [][C6_Step]_vars

\* a shape has just evaluated to nothing: it divides by a sub-expression that is 0
C6_Witness ==
    /\ pc = "eval"
    /\ alt > 0
    /\ v = None
    /\ \E node \in Subtrees(alternatives[alt]) :
          /\ node.kind = "bin"
          /\ ops[node.operation + 1] = "DIV"
          /\ node.right.kind = "bin"
          /\ Eval(node.right, ints, ops) = Some(0)

\* C7: no string occurs twice in the list of an entry, at any point of the run.
C7_NoDuplicateStrings ==
    \A val \in DOMAIN dictionary :
        \A i, j \in 1..Len(dictionary[val][2]) :
            i # j => dictionary[val][2][i] # dictionary[val][2][j]

\* an entry holds the strings of two shapes and of two assignments
C7_Witness ==
    /\ pc = "done"
    /\ \E val \in DOMAIN dictionary : Len(dictionary[val][2]) >= 4

RECURSIVE Factorial(_)
Factorial(n) == IF n = 0 THEN 1 ELSE n * Factorial(n - 1)

\* The n-th Catalan number: (2n)! / ((n + 1)! n!).
Catalan(n) == Factorial(2 * n) \div (Factorial(n + 1) * Factorial(n))

RECURSIVE IsFullTree(_)
IsFullTree(node) ==
    \/ node.kind = "num" /\ DOMAIN node = {"kind", "value"}
    \/ /\ node.kind = "bin"
       /\ DOMAIN node = {"kind", "left", "right", "operation"}
       /\ IsFullTree(node.left)
       /\ IsFullTree(node.right)

\* C8: called on the leaves 0..n-1, calculate_parenthesisations returns
\* Catalan(n - 1) trees (1, 1, 2, 5, 14 for n = 1..5), pairwise distinct, each a
\* full binary tree.
C8_CatalanManyShapes ==
    (pc = "shapes_done" /\ call[1].left = 0) =>
        LET n == call[1].right
        IN  /\ Len(alternatives) = Catalan(n - 1)
            /\ n <= 5 => Len(alternatives) = <<1, 1, 2, 5, 14>>[n]
            /\ \A i, j \in 1..Len(alternatives) :
                  i # j => alternatives[i] # alternatives[j]
            /\ \A i \in 1..Len(alternatives) : IsFullTree(alternatives[i])

C8_Witness ==
    /\ pc = "shapes_done"
    /\ call[1].left = 0
    /\ call[1].right = 5
    /\ Len(alternatives) = 14

RECURSIVE InOrder(_)
InOrder(node) ==
    IF node.kind = "num" THEN <<<<"leaf", node.value>>>>
    ELSE InOrder(node.left) \o <<<<"op", node.operation>>>> \o InOrder(node.right)

\* C9: the in-order traversal of every tree returned for left < right is
\* leaf[left], op[left], leaf[left + 1], ..., op[right - 2], leaf[right - 1].
C9_InOrderIsIndexOrder ==
    pc = "shapes_done" =>
        LET left == call[1].left
            right == call[1].right
        IN  \A a \in 1..Len(alternatives) :
                InOrder(alternatives[a]) =
                    [k \in 1..(2 * (right - left) - 1) |->
                        IF k % 2 = 1 THEN <<"leaf", left + (k - 1) \div 2>>
                        ELSE <<"op", left + (k \div 2) - 1>>]

C9_Witness ==
    /\ pc = "shapes_done"
    /\ call[1].left >= 1
    /\ call[1].right - call[1].left >= 4
    /\ Len(alternatives) >= 5

\* C10: for every configuration that passes validation the search reaches the
\* report: once started it never stops anywhere but at the end of the report.
C10_ReachesReport ==
    pc \notin {"start", "exit"} => (pc = "done" \/ ENABLED Next)

====
